---- MODULE Spec2Model ----
(***************************************************************************)
(* Model of GraphLinearBuilder, the single-threaded HNSW graph builder of  *)
(* lib/segment/src/index/hnsw_index/graph_linear_builder.rs.               *)
(*                                                                         *)
(* The builder's fields are the variables m, m0, ef_construct,             *)
(* links_layers, entry_points, point_levels and scorer.  link_new_point is *)
(* modelled by two actions: LinkNewPoint (the call of get_link_request     *)
(* that opens the while loop) and LinkLevel (one iteration of the loop:    *)
(* link, apply_link_response, next_request).  The loop variable `request`  *)
(* is a variable of the model; it is None between calls.                   *)
(***************************************************************************)
EXTENDS Integers, Sequences, FiniteSets, TLC

\* ---------------------------------------------------------------- bounds
MaxPoints == 4
MaxLevel == 1
MaxM == 3
MaxEf == 2
MaxScore == 2
MaxEntryPoints == 1
MaxSetCalls == 2
MaxStorePoints == 3

VARIABLES
    m,              \* GraphLinearBuilder::m
    m0,             \* GraphLinearBuilder::m0
    ef_construct,   \* GraphLinearBuilder::ef_construct
    links_layers,   \* one flat buffer per level; cell i of Rust is buffer[i + 1]
    entry_points,   \* the Entry-Point Registry: its records, best first
    entry_points_num, \* the capacity the registry was created with
    point_levels,   \* point p has level point_levels[p + 1]
    scorer,         \* the injected scorer: a symmetric function of two points
    request,        \* the loop variable of link_new_point: None or a GraphLinkRequest
    linked,         \* the points link_new_point has been called for
    before,         \* links_layers when the running (or last) call started
    step,           \* the last level step of the running (or last) call, or None:
                    \* its request, links_layers before it, what it searched, its response
    oracle_links,   \* the adjacency lists of the reference builder
    oracle_entry,   \* the registry of the reference builder
    call,           \* the running (or last) link_new_point call, or None: its point,
                    \* the entry point the registry answered, its descent, and the
                    \* levels its loop has stepped so far
    set_calls,      \* number of direct set_links calls (SpecStore only)
    last_set        \* the last direct set_links call (SpecStore only), or None

vars == <<m, m0, ef_construct, links_layers, entry_points, entry_points_num,
          point_levels, scorer,
          request, linked, before, step, oracle_links,
          oracle_entry, call, set_calls, last_set>>

None == [none |-> TRUE]

\* ---------------------------------------------------------------- helpers
num_points == Len(point_levels)

Points == 0 .. (num_points - 1)

Pairs(n) == {pr \in SUBSET (0 .. (n - 1)) : Cardinality(pr) = 2}

Last(s) == s[Len(s)]

SeqToSet(s) == {s[i] : i \in 1 .. Len(s)}

MaxOfSet(S) == CHOOSE x \in S : \A y \in S : y <= x

ScoredPointOffset(idx, sc) == [idx |-> idx, score |-> sc]

\* Ord of ScoredPointOffset: by score, ties broken by id.
ScoredLess(a, b) == a.score < b.score \/ (a.score = b.score /\ a.idx < b.idx)

\* ScoreType::min_value(), below every score of the scorer
MinScore == 0

SelfScore == MaxScore + 2

score(a, b) == IF a = b THEN SelfScore ELSE scorer[{a, b}]

get_m(level) == IF level = 0 THEN m0 ELSE m

get_point_level(point_id) == point_levels[point_id + 1]

Min(a, b) == IF a < b THEN a ELSE b

\* ---------------------------------------------------------------- adjacency store
\* GraphLinearBuilder::new: one zeroed buffer of (level_m + 1) * N cells per level
NewLinksLayers(levels, mm, mm0) ==
    LET levels_count == MaxOfSet(SeqToSet(levels))
    IN  [i \in 1 .. (levels_count + 1) |->
            [c \in 1 .. (((IF i = 1 THEN mm0 ELSE mm) + 1) * Len(levels)) |-> 0]]

get_links(layers, point_id, level) ==
    LET level_m == get_m(level)
        start_index == point_id * (level_m + 1)
        len == layers[level + 1][start_index + 1]
    IN  SubSeq(layers[level + 1], start_index + 2, start_index + 1 + len)

\* set_links writing the capacity of the slot where the length of the list belongs
SetLinksFullCount(layers, point_id, level, links) ==
    LET level_m == get_m(level)
        start_index == point_id * (level_m + 1)
    IN  [layers EXCEPT ![level + 1] =
            [c \in DOMAIN @ |->
                IF c = start_index + 1 THEN level_m
                ELSE IF c - (start_index + 1) \in 1 .. Len(links)
                     THEN links[c - (start_index + 1)]
                     ELSE @[c]]]

\* set_links with the stride level_m where level_m + 1 belongs
SetLinksTightStride(layers, point_id, level, links) ==
    LET level_m == get_m(level)
        start_index == point_id * level_m
    IN  [layers EXCEPT ![level + 1] =
            [c \in DOMAIN @ |->
                IF c = start_index + 1 THEN Len(links)
                ELSE IF c - (start_index + 1) \in 1 .. Len(links)
                     THEN links[c - (start_index + 1)]
                     ELSE @[c]]]

set_links(layers, point_id, level, links) ==
    LET level_m == get_m(level)
        start_index == point_id * (level_m + 1)
    IN  [layers EXCEPT ![level + 1] =
            [c \in DOMAIN @ |->
                IF c = start_index + 1 THEN Len(links)
                ELSE IF c - (start_index + 1) \in 1 .. Len(links)
                     THEN links[c - (start_index + 1)]
                     ELSE @[c]]]

\* ---------------------------------------------------------------- heaps
RECURSIVE InsertDesc(_, _)
InsertDesc(s, x) ==
    IF s = <<>> THEN <<x>>
    ELSE IF ScoredLess(Head(s), x) THEN <<x>> \o s
         ELSE <<Head(s)>> \o InsertDesc(Tail(s), x)

RECURSIVE SortDesc(_)
SortDesc(s) == IF s = <<>> THEN <<>> ELSE InsertDesc(SortDesc(Tail(s)), Head(s))

ReverseSeq(s) == [i \in 1 .. Len(s) |-> s[Len(s) + 1 - i]]

RECURSIVE RemoveOne(_, _)
RemoveOne(s, x) ==
    IF s = <<>> THEN <<>>
    ELSE IF Head(s) = x THEN Tail(s) ELSE <<Head(s)>> \o RemoveOne(Tail(s), x)

\* BinaryHeap: a bag of scored points, kept in push order
into_sorted_vec(heap) == ReverseSeq(SortDesc(heap))

HeapPeek(heap) == Head(SortDesc(heap))

HeapPop(heap) == RemoveOne(heap, HeapPeek(heap))

\* FixedLengthPriorityQueue: a bag of at most `length` scored points
FLPQ_top(queue) == IF queue = <<>> THEN None ELSE Last(SortDesc(queue))

\* push answers what left the queue: nothing while there is room, else the worst
\* kept point if the score of the new one is better, else the new point itself
FLPQ_push(queue, length, value) ==
    IF Len(queue) < length
    THEN [queue |-> Append(queue, value), removed |-> None]
    ELSE LET x == FLPQ_top(queue)
         IN  IF x.score < value.score
             THEN [queue |-> Append(RemoveOne(queue, x), value), removed |-> x]
             ELSE [queue |-> queue, removed |-> value]

FLPQ_into_vec(queue) == SortDesc(queue)

FLPQ_max(queue) == IF queue = <<>> THEN None ELSE Head(SortDesc(queue))

\* VisitedList::check_and_update_visited: the answer, and the list with id marked
check_and_update_visited(visited, id) == [was |-> id \in visited, visited |-> visited \cup {id}]

\* ---------------------------------------------------------------- level search
\* The search state carries, next to visited_list, nearest and candidates, a
\* record of what the search did: `log` has one entry per process_candidate
\* call (the scored point, nearest before and after, candidates after),
\* `expanded` the candidates whose links were read, `exit` the break of line 222.

\* process_candidate pushing every scored point onto candidates
ProcessCandidateAlways(st, score_point) ==
    LET pushed == FLPQ_push(st.nearest, ef_construct, score_point)
        candidates == Append(st.candidates, score_point)
    IN  [st EXCEPT !.nearest = pushed.queue,
                   !.candidates = candidates,
                   !.log = Append(@, [point |-> score_point,
                                      nearest |-> st.nearest,
                                      nearest_after |-> pushed.queue,
                                      candidates_after |-> candidates])]

process_candidate(st, score_point) ==
    LET pushed == FLPQ_push(st.nearest, ef_construct, score_point)
        was_added == IF pushed.removed = None THEN TRUE
                     ELSE pushed.removed.idx # score_point.idx
        candidates == IF was_added THEN Append(st.candidates, score_point)
                      ELSE st.candidates
    IN  [st EXCEPT !.nearest = pushed.queue,
                   !.candidates = candidates,
                   !.log = Append(@, [point |-> score_point,
                                      nearest |-> st.nearest,
                                      nearest_after |-> pushed.queue,
                                      candidates_after |-> candidates])]

\* lines 226-235: one link of the popped candidate
ExpandLink(st, link, id) ==
    LET v == check_and_update_visited(st.visited, link)
    IN  IF ~v.was
        THEN process_candidate([st EXCEPT !.visited = v.visited],
                               ScoredPointOffset(link, score(link, id)))
        ELSE st

RECURSIVE ExpandLinks(_, _, _)
ExpandLinks(st, links, id) ==
    IF links = <<>> THEN st
    ELSE ExpandLinks(ExpandLink(st, Head(links), id), Tail(links), id)

\* the early exit taken on a tie with the worst kept score too (<= where < belongs)
EarlyExitOnTie(candidate, nearest) ==
    LET top == FLPQ_top(nearest)
        lower_bound == IF top = None THEN MinScore ELSE top.score
    IN  candidate.score <= lower_bound

\* line 221: the early exit of the expansion loop
EarlyExit(candidate, nearest) ==
    LET top == FLPQ_top(nearest)
        lower_bound == IF top = None THEN MinScore ELSE top.score
    IN  candidate.score < lower_bound

\* The loop is followed for num_points expansions; `cut` tells that it was
\* still running then.
RECURSIVE SearchLoop(_, _, _, _)
SearchLoop(layers, st, id, level) ==
    IF st.candidates = <<>> THEN st
    ELSE LET candidate == HeapPeek(st.candidates)
             popped == [st EXCEPT !.candidates = HeapPop(@)]
         IN  IF EarlyExit(candidate, st.nearest)
             THEN [popped EXCEPT !.exit = [candidate |-> candidate,
                                           nearest |-> st.nearest,
                                           candidates |-> popped.candidates]]
             ELSE IF Len(st.expanded) >= num_points THEN [st EXCEPT !.cut = TRUE]
             ELSE SearchLoop(layers,
                             ExpandLinks([popped EXCEPT !.expanded = Append(@, candidate)],
                                         get_links(layers, candidate.idx, level), id),
                             id, level)

\* lines 238-249: the links the inserted point already has on the level
RECURSIVE ExistingLinks(_, _, _)
ExistingLinks(st, links, id) ==
    IF links = <<>> THEN st
    ELSE LET existing_link == Head(links)
             next == IF existing_link \notin st.visited
                     THEN process_candidate(st, ScoredPointOffset(existing_link,
                                                                 score(id, existing_link)))
                     ELSE st
         IN  ExistingLinks(next, Tail(links), id)

SearchState(layers, id, level_entry, level) ==
    LET st0 == [visited |-> check_and_update_visited({}, level_entry.idx).visited,
                nearest |-> FLPQ_push(<<>>, ef_construct, level_entry).queue,
                candidates |-> <<level_entry>>,
                log |-> <<>>,
                expanded |-> <<>>,
                exit |-> None,
                cut |-> FALSE]
        st1 == SearchLoop(layers, st0, id, level)
        st2 == ExistingLinks(st1, get_links(layers, id, level), id)
    IN  st2

search_on_level(layers, id, level_entry, level) ==
    SearchState(layers, id, level_entry, level).nearest

\* ---------------------------------------------------------------- entry descent
\* rev_range(a, b) = (b + 1 ..= a).rev()
rev_range(a, b) == [i \in 1 .. (IF a > b THEN a - b ELSE 0) |-> a + 1 - i]

\* the pass moving to a neighbor that only ties the current score (>= where >
\* belongs)
RECURSIVE ScanLinksOnTie(_, _, _)
ScanLinksOnTie(cur, links, id) ==
    IF links = <<>> THEN cur
    ELSE LET link == Head(links)
             sc == score(link, id)
         IN  IF sc >= cur.point.score
             THEN ScanLinksOnTie([changed |-> TRUE, point |-> ScoredPointOffset(link, sc)],
                                 Tail(links), id)
             ELSE ScanLinksOnTie(cur, Tail(links), id)

\* lines 285-291: one pass over the links of the point the pass started at
RECURSIVE ScanLinks(_, _, _)
ScanLinks(cur, links, id) ==
    IF links = <<>> THEN cur
    ELSE LET link == Head(links)
             sc == score(link, id)
         IN  IF sc > cur.point.score
             THEN ScanLinks([changed |-> TRUE, point |-> ScoredPointOffset(link, sc)],
                            Tail(links), id)
             ELSE ScanLinks(cur, Tail(links), id)

\* A run of the descent is current_point together with a record of what the
\* loops did: `scans` has one entry per pass of the while loop (the level and
\* the point whose links the pass read).  The while loop is followed for
\* num_points passes on a level; `cut` tells that it was still running then.
PassesOn(scans, level) == Cardinality({i \in 1 .. Len(scans) : scans[i].level = level})

\* lines 282-292: the while loop on one level
RECURSIVE HillClimb(_, _, _, _)
HillClimb(layers, run, id, level) ==
    LET r == ScanLinks([changed |-> FALSE, point |-> run.current_point],
                       get_links(layers, run.current_point.idx, level), id)
        scanned == [run EXCEPT !.current_point = r.point,
                               !.scans = Append(@, [level |-> level,
                                                    point |-> run.current_point])]
    IN  IF ~r.changed THEN scanned
        ELSE IF PassesOn(scanned.scans, level) >= num_points
             THEN [scanned EXCEPT !.cut = TRUE]
             ELSE HillClimb(layers, scanned, id, level)

\* line 280: the for loop over the levels
RECURSIVE DescendLevels(_, _, _, _)
DescendLevels(layers, run, id, levels) ==
    IF levels = <<>> THEN run
    ELSE DescendLevels(layers, HillClimb(layers, run, id, Head(levels)),
                       id, Tail(levels))

\* the descent climbing on the target level too
SearchEntryRunThroughTarget(layers, id, entry_point, top_level, target_level) ==
    DescendLevels(layers,
                  [current_point |-> ScoredPointOffset(entry_point, score(id, entry_point)),
                   scans |-> <<>>,
                   cut |-> FALSE],
                  id, rev_range(top_level, target_level - 1))

SearchEntryRun(layers, id, entry_point, top_level, target_level) ==
    DescendLevels(layers,
                  [current_point |-> ScoredPointOffset(entry_point, score(id, entry_point)),
                   scans |-> <<>>,
                   cut |-> FALSE],
                  id, rev_range(top_level, target_level))

search_entry(layers, id, entry_point, top_level, target_level) ==
    SearchEntryRun(layers, id, entry_point, top_level, target_level).current_point

\* ---------------------------------------------------------------- heuristic
\* lines 187-194: no selected point is closer to the candidate than the query is
\* the heuristic rejecting a candidate on a tie too (>= where > belongs)
IsGoodStrict(current_closest, result_list) ==
    \A i \in 1 .. Len(result_list) :
        ~(score(current_closest.idx, result_list[i]) >= current_closest.score)

\* the heuristic admitting every candidate
IsGoodAlways(current_closest, result_list) == TRUE

IsGood(current_closest, result_list) ==
    \A i \in 1 .. Len(result_list) :
        ~(score(current_closest.idx, result_list[i]) > current_closest.score)

\* the loop over the candidates left at the first rejected candidate
RECURSIVE SelectLoopStopAtReject(_, _, _)
SelectLoopStopAtReject(candidates, mm, result_list) ==
    IF candidates = <<>> \/ Len(result_list) >= mm THEN result_list
    ELSE LET current_closest == Head(candidates)
         IN  IF IsGood(current_closest, result_list)
             THEN SelectLoopStopAtReject(Tail(candidates), mm,
                                         Append(result_list, current_closest.idx))
             ELSE result_list

\* the loop over the candidates stopping one short of the limit
RECURSIVE SelectLoopShortLimit(_, _, _)
SelectLoopShortLimit(candidates, mm, result_list) ==
    IF candidates = <<>> \/ Len(result_list) + 1 >= mm THEN result_list
    ELSE LET current_closest == Head(candidates)
         IN  SelectLoopShortLimit(Tail(candidates), mm,
                                  IF IsGood(current_closest, result_list)
                                  THEN Append(result_list, current_closest.idx)
                                  ELSE result_list)

\* lines 184-199: the loop over the candidates
RECURSIVE SelectLoop(_, _, _)
SelectLoop(candidates, mm, result_list) ==
    IF candidates = <<>> \/ Len(result_list) >= mm THEN result_list
    ELSE LET current_closest == Head(candidates)
         IN  SelectLoop(Tail(candidates), mm,
                        IF IsGood(current_closest, result_list)
                        THEN Append(result_list, current_closest.idx)
                        ELSE result_list)

select_candidate_with_heuristic_from_sorted(candidates, mm) ==
    SelectLoop(candidates, mm, <<>>)

\* ---------------------------------------------------------------- linker
\* lines 154-165: the candidates of the re-pruning of a neighbour, best first
RePruneCandidates(other_point, other_point_links, req) ==
    LET level_m == get_m(req.level)
        taken == SubSeq(other_point_links, 1, Min(level_m, Len(other_point_links)))
        candidates ==
            <<ScoredPointOffset(req.point_id, score(req.point_id, other_point))>>
            \o [i \in 1 .. Len(taken) |->
                   ScoredPointOffset(taken[i], score(taken[i], other_point))]
    IN  ReverseSeq(into_sorted_vec(candidates))

\* the re-pruning of a neighbour, lines 154-169
RePrune(other_point, other_point_links, req) ==
    select_candidate_with_heuristic_from_sorted(
        RePruneCandidates(other_point, other_point_links, req), get_m(req.level))

\* NeighborLinks appending to a full list (<= where < belongs)
NeighborLinksAppendFull(layers, other_point, req) ==
    LET other_point_links == get_links(layers, other_point, req.level)
    IN  IF Len(other_point_links) <= get_m(req.level)
        THEN Append(other_point_links, req.point_id)
        ELSE RePrune(other_point, other_point_links, req)

\* NeighborLinks pushing the neighbour itself where the new point belongs
NeighborLinksSelf(layers, other_point, req) ==
    LET other_point_links == get_links(layers, other_point, req.level)
    IN  IF Len(other_point_links) < get_m(req.level)
        THEN Append(other_point_links, other_point)
        ELSE RePrune(other_point, other_point_links, req)

\* NeighborLinks re-pruning every list, full or not
NeighborLinksAlwaysPrune(layers, other_point, req) ==
    RePrune(other_point, get_links(layers, other_point, req.level), req)

\* lines 147-170: the new list of a selected neighbour
NeighborLinks(layers, other_point, req) ==
    LET level_m == get_m(req.level)
        other_point_links == get_links(layers, other_point, req.level)
    IN  IF Len(other_point_links) < level_m
        THEN Append(other_point_links, req.point_id)
        ELSE RePrune(other_point, other_point_links, req)

\* link answering the entry of its request where the best found point belongs
LinkKeepsEntry(layers, req) ==
    LET nearest_points == search_on_level(layers, req.point_id, req.entry, req.level)
        level_m == get_m(req.level)
        links == select_candidate_with_heuristic_from_sorted(
                     FLPQ_into_vec(nearest_points), level_m)
    IN  [point_id |-> req.point_id,
         level |-> req.level,
         entry |-> req.entry,
         links |-> links,
         neighbor_ids |-> links,
         neighbor_links |-> [i \in 1 .. Len(links) |-> NeighborLinks(layers, links[i], req)]]

link(layers, req) ==
    LET nearest_points == search_on_level(layers, req.point_id, req.entry, req.level)
        best == FLPQ_max(nearest_points)
        level_m == get_m(req.level)
        links == select_candidate_with_heuristic_from_sorted(
                     FLPQ_into_vec(nearest_points), level_m)
    IN  [point_id |-> req.point_id,
         level |-> req.level,
         entry |-> IF best = None THEN req.entry ELSE best,
         links |-> links,
         neighbor_ids |-> links,
         neighbor_links |-> [i \in 1 .. Len(links) |-> NeighborLinks(layers, links[i], req)]]

\* the loop writing the lists of the neighbours on level 0
RECURSIVE ApplyNeighborsGround(_, _, _, _)
ApplyNeighborsGround(layers, level, ids, lists) ==
    IF ids = <<>> \/ lists = <<>> THEN layers
    ELSE ApplyNeighborsGround(set_links(layers, Head(ids), 0, Head(lists)),
                              level, Tail(ids), Tail(lists))

\* lines 83-89: the loop over neighbor_ids zipped with neighbor_links
RECURSIVE ApplyNeighbors(_, _, _, _)
ApplyNeighbors(layers, level, ids, lists) ==
    IF ids = <<>> \/ lists = <<>> THEN layers
    ELSE ApplyNeighbors(set_links(layers, Head(ids), level, Head(lists)),
                        level, Tail(ids), Tail(lists))

\* apply_link_response writing the list of the new point only
ApplyOwnListOnly(layers, resp) ==
    set_links(layers, resp.point_id, resp.level, resp.links)

apply_link_response(layers, resp) ==
    ApplyNeighbors(set_links(layers, resp.point_id, resp.level, resp.links),
                   resp.level, resp.neighbor_ids, resp.neighbor_links)

\* next_request ending the loop above level 0 (> 1 where > 0 belongs)
NextRequestSkipsGround(resp) ==
    IF resp.level > 1
    THEN [point_id |-> resp.point_id, level |-> resp.level - 1, entry |-> resp.entry]
    ELSE None

\* next_request asking for the same level again
NextRequestSameLevel(resp) ==
    IF resp.level > 0
    THEN [point_id |-> resp.point_id, level |-> resp.level, entry |-> resp.entry]
    ELSE None

next_request(resp) ==
    IF resp.level > 0
    THEN [point_id |-> resp.point_id, level |-> resp.level - 1, entry |-> resp.entry]
    ELSE None

\* EntryPoints::new_point with the constant-true predicate: the prior best entry
\* (None for the first point) and the registry with the new point recorded
new_point(eps, num, point_id, level) ==
    LET new == [point_id |-> point_id, level |-> level]
    IN  IF eps = <<>>
        THEN [entry |-> None, entry_points |-> <<new>>]
        ELSE LET top == MaxOfSet({eps[i].level : i \in 1 .. Len(eps)})
                 at == CHOOSE i \in 1 .. Len(eps) :
                           /\ eps[i].level = top
                           /\ \A j \in 1 .. (i - 1) : eps[j].level # top
                 best == eps[at]
                 room == Len(eps) < num
             IN  IF best.level >= level
                 THEN [entry |-> best,
                       entry_points |-> IF room THEN Append(eps, new) ELSE eps]
                 ELSE [entry |-> best,
                       entry_points |-> IF room THEN Append([eps EXCEPT ![at] = new], best)
                                        ELSE [eps EXCEPT ![at] = new]]

\* linking from the level of the entry point, the min forgotten
LinkingLevelOfEntry(level, entry_level) == entry_level

\* line 106: the level linking starts at
LinkingLevel(level, entry_level) == Min(level, entry_level)

\* get_link_request answering the first point with a request that enters at itself
GetLinkRequestOfFirst(layers, eps, point_id) ==
    LET level == get_point_level(point_id)
        reg == new_point(eps, entry_points_num, point_id, level)
    IN  [entry_points |-> reg.entry_points,
         entry_point |-> reg.entry,
         descent |-> None,
         request |-> [point_id |-> point_id,
                      level |-> level,
                      entry |-> ScoredPointOffset(point_id, score(point_id, point_id))]]

\* the answer carries, next to the request and the registry, what the call
\* did: the entry point the registry answered and the descent, if one ran
get_link_request(layers, eps, point_id) ==
    LET level == get_point_level(point_id)
        reg == new_point(eps, entry_points_num, point_id, level)
        entry_point == reg.entry
    IN  [entry_points |-> reg.entry_points,
         entry_point |-> entry_point,
         descent |->
            IF entry_point # None /\ entry_point.level > level
            THEN [entry_point |-> entry_point.point_id,
                  top_level |-> entry_point.level,
                  target_level |-> level,
                  run |-> SearchEntryRun(layers, point_id, entry_point.point_id,
                                         entry_point.level, level)]
            ELSE None,
         request |->
            IF entry_point = None THEN None
            ELSE [point_id |-> point_id,
                  level |-> LinkingLevel(level, entry_point.level),
                  entry |-> IF entry_point.level > level
                            THEN search_entry(layers, point_id, entry_point.point_id,
                                              entry_point.level, level)
                            ELSE ScoredPointOffset(entry_point.point_id,
                                                   score(point_id, entry_point.point_id))]]

\* ---------------------------------------------------------------- reference builder
\* GraphLayersBuilder, the parallel-capable reference: one adjacency list per
\* (point, level), the lists of the selected neighbours updated in place.
OracleM(level) == IF level = 0 THEN m0 ELSE m

OracleBest(S) == CHOOSE x \in S : \A y \in S : y = x \/ ScoredLess(y, x)

OracleWorst(S) == CHOOSE x \in S : \A y \in S : y = x \/ ScoredLess(x, y)

RECURSIVE OracleDescending(_)
OracleDescending(S) ==
    IF S = {} THEN <<>> ELSE <<OracleBest(S)>> \o OracleDescending(S \ {OracleBest(S)})

\* offer a scored point to the beam; the frontier receives it only if admitted
OracleOffer(st, sp) ==
    IF Cardinality(st.nearest) < ef_construct
    THEN [st EXCEPT !.nearest = @ \cup {sp}, !.candidates = @ \cup {sp}]
    ELSE LET worst == OracleWorst(st.nearest)
         IN  IF worst.score < sp.score
             THEN [st EXCEPT !.nearest = (@ \ {worst}) \cup {sp}, !.candidates = @ \cup {sp}]
             ELSE st

RECURSIVE OracleVisit(_, _, _)
OracleVisit(st, neighbors, q) ==
    IF neighbors = <<>> THEN st
    ELSE LET n == Head(neighbors)
         IN  IF n \in st.visited THEN OracleVisit(st, Tail(neighbors), q)
             ELSE OracleVisit(OracleOffer([st EXCEPT !.visited = @ \cup {n}],
                                          ScoredPointOffset(n, score(n, q))),
                              Tail(neighbors), q)

RECURSIVE OracleExpand(_, _, _, _)
OracleExpand(adj, st, q, level) ==
    IF st.candidates = {} THEN st
    ELSE LET c == OracleBest(st.candidates)
             full == Cardinality(st.nearest) = ef_construct
         IN  IF full /\ c.score < OracleWorst(st.nearest).score THEN st
             ELSE OracleExpand(adj,
                               OracleVisit([st EXCEPT !.candidates = @ \ {c}],
                                           adj[c.idx][level], q),
                               q, level)

RECURSIVE OracleExisting(_, _, _)
OracleExisting(st, ids, q) ==
    IF ids = <<>> THEN st
    ELSE OracleExisting(IF Head(ids) \in st.visited THEN st
                        ELSE OracleOffer(st, ScoredPointOffset(Head(ids), score(q, Head(ids)))),
                        Tail(ids), q)

OracleLevelSearch(adj, q, entry, level) ==
    LET seeded == [visited |-> {entry.idx}, nearest |-> {entry}, candidates |-> {entry}]
        expanded == OracleExpand(adj, seeded, q, level)
    IN  OracleExisting(expanded, adj[q][level], q).nearest

RECURSIVE OracleSelect(_, _, _)
OracleSelect(cands, mm, admitted) ==
    IF cands = <<>> \/ Len(admitted) = mm THEN admitted
    ELSE LET c == Head(cands)
             ok == \A i \in 1 .. Len(admitted) : score(c.idx, admitted[i]) <= c.score
         IN  OracleSelect(Tail(cands), mm, IF ok THEN Append(admitted, c.idx) ELSE admitted)

\* greedy hill-climb on one level: move to the best improving neighbour and rescan
RECURSIVE OracleClimb(_, _, _, _)
OracleClimb(adj, cur, q, level) ==
    LET ns == adj[cur.idx][level]
        better == {i \in 1 .. Len(ns) : score(ns[i], q) > cur.score}
    IN  IF better = {} THEN cur
        ELSE LET top == MaxOfSet({score(ns[i], q) : i \in better})
                 first == CHOOSE i \in better :
                              /\ score(ns[i], q) = top
                              /\ \A j \in better : score(ns[j], q) = top => i <= j
             IN  OracleClimb(adj, ScoredPointOffset(ns[first], top), q, level)

RECURSIVE OracleDescent(_, _, _, _, _)
OracleDescent(adj, cur, q, level, target_level) ==
    IF level <= target_level THEN cur
    ELSE OracleDescent(adj, OracleClimb(adj, cur, q, level), q, level - 1, target_level)

RECURSIVE OracleUpdateNeighbors(_, _, _, _)
OracleUpdateNeighbors(adj, p, level, qs) ==
    IF qs = <<>> THEN adj
    ELSE LET q == Head(qs)
             q_links == adj[q][level]
             pool == {ScoredPointOffset(x, score(x, q)) :
                         x \in {p} \cup SeqToSet(SubSeq(q_links, 1, OracleM(level)))}
             new == IF Len(q_links) < OracleM(level)
                    THEN Append(q_links, p)
                    ELSE OracleSelect(OracleDescending(pool), OracleM(level), <<>>)
         IN  OracleUpdateNeighbors([adj EXCEPT ![q][level] = new], p, level, Tail(qs))

RECURSIVE OracleLevels(_, _, _, _)
OracleLevels(adj, p, entry_scored, level) ==
    LET found == OracleLevelSearch(adj, p, entry_scored, level)
        links == OracleSelect(OracleDescending(found), OracleM(level), <<>>)
        written == OracleUpdateNeighbors([adj EXCEPT ![p][level] = links], p, level, links)
        next_entry == IF found = {} THEN entry_scored ELSE OracleBest(found)
    IN  IF level = 0 THEN written ELSE OracleLevels(written, p, next_entry, level - 1)

OracleLinkNewPoint(adj, oentry, p) ==
    LET level == get_point_level(p)
        first == ScoredPointOffset(oentry.point_id, score(p, oentry.point_id))
    IN  IF oentry = None THEN adj
        ELSE OracleLevels(adj, p,
                          IF oentry.level > level
                          THEN OracleDescent(adj, first, p, oentry.level, level)
                          ELSE first,
                          Min(level, oentry.level))

OracleRegister(oentry, p) ==
    IF oentry = None \/ get_point_level(p) > oentry.level
    THEN [point_id |-> p, level |-> get_point_level(p)]
    ELSE oentry

\* ---------------------------------------------------------------- specification
Init ==
    /\ \E n \in 1 .. MaxPoints :
          /\ point_levels \in [1 .. n -> 0 .. MaxLevel]
          /\ scorer \in [Pairs(n) -> 1 .. MaxScore]
    /\ m \in 1 .. MaxM
    /\ m0 \in m .. MaxM
    /\ ef_construct \in 1 .. MaxEf
    /\ entry_points_num \in 1 .. MaxEntryPoints
    /\ links_layers = NewLinksLayers(point_levels, m, m0)
    /\ entry_points = <<>>
    /\ request = None
    /\ linked = {}
    /\ before = links_layers
    /\ step = None
    /\ oracle_links = [p \in 0 .. (Len(point_levels) - 1) |->
                          [l \in 0 .. MaxOfSet(SeqToSet(point_levels)) |-> <<>>]]
    /\ oracle_entry = None
    /\ call = None
    /\ set_calls = 0
    /\ last_set = None

\* link_new_point(point_id), up to the first test of the while loop.  Each point
\* is linked once; the caller feeds the points in index order, as the driver of
\* the repository does (for idx in 0..num_vectors, lines 401-403).  Levels and
\* scorer range over every assignment, so every relative placement of the
\* inserted points is covered up to the naming of the points.
LinkNewPoint(point_id) ==
    /\ request = None
    /\ set_calls = 0
    /\ point_id \in Points \ linked
    /\ \A q \in Points : q < point_id => q \in linked
    /\ LET r == get_link_request(links_layers, entry_points, point_id)
       IN  /\ request' = r.request
           /\ entry_points' = r.entry_points
           /\ call' = [point_id |-> point_id,
                        entry_point |-> r.entry_point,
                        descent |-> r.descent,
                        levels |-> <<>>]
    /\ linked' = linked \cup {point_id}
    /\ before' = links_layers
    /\ step' = None
    /\ oracle_links' = OracleLinkNewPoint(oracle_links, oracle_entry, point_id)
    /\ oracle_entry' = OracleRegister(oracle_entry, point_id)
    /\ UNCHANGED <<m, m0, ef_construct, links_layers, entry_points_num, point_levels,
                   scorer, set_calls, last_set>>

\* one iteration of the while loop of link_new_point
LinkLevel ==
    /\ request # None
    /\ LET resp == link(links_layers, request)
           search == SearchState(links_layers, request.point_id,
                                 request.entry, request.level)
       IN  /\ links_layers' = apply_link_response(links_layers, resp)
           /\ request' = next_request(resp)
           /\ step' = [request |-> request,
                        before |-> links_layers,
                        visited |-> search.visited,
                        nearest |-> FLPQ_into_vec(search_on_level(links_layers,
                                        request.point_id, request.entry, request.level)),
                        log |-> search.log,
                        expanded |-> search.expanded,
                        exit |-> search.exit,
                        cut |-> search.cut,
                        response |-> resp]
           /\ call' = [call EXCEPT !.levels = Append(@, resp.level)]
    /\ UNCHANGED <<m, m0, ef_construct, entry_points, entry_points_num, point_levels,
                   scorer, linked, before, oracle_links, oracle_entry, set_calls, last_set>>

Next ==
    \/ \E point_id \in Points : LinkNewPoint(point_id)
    \/ LinkLevel

Spec == Init /\ [][Next]_vars

\* ---------------------------------------------------------------- the store alone
\* Direct use of the public set_links / get_links on a freshly built store.  The
\* store depends on the levels through their maximum only (line 61): point 0
\* carries it, the other points have level 0.
InitStore ==
    /\ \E n \in 1 .. MaxStorePoints : \E top \in 0 .. MaxLevel :
          /\ point_levels = [i \in 1 .. n |-> IF i = 1 THEN top ELSE 0]
          /\ scorer = [pr \in Pairs(n) |-> 1]
    /\ m \in 1 .. MaxM
    /\ m0 \in m .. MaxM
    /\ ef_construct = 1
    /\ entry_points_num = 1
    /\ links_layers = NewLinksLayers(point_levels, m, m0)
    /\ entry_points = <<>>
    /\ request = None
    /\ linked = {}
    /\ before = links_layers
    /\ step = None
    /\ oracle_links = [p \in 0 .. (Len(point_levels) - 1) |->
                          [l \in 0 .. MaxOfSet(SeqToSet(point_levels)) |-> <<>>]]
    /\ oracle_entry = None
    /\ call = None
    /\ set_calls = 0
    /\ last_set = None

ListsUpTo(n) == UNION {[1 .. k -> Points] : k \in 0 .. n}

\* set_links(point_id, level, links), called with a list that fits the slot
SetLinks(point_id, level, links) ==
    /\ set_calls < MaxSetCalls
    /\ links_layers' = set_links(links_layers, point_id, level, links)
    /\ last_set' = [point_id |-> point_id, level |-> level, links |-> links,
                    before |-> links_layers]
    /\ set_calls' = set_calls + 1
    /\ UNCHANGED <<m, m0, ef_construct, entry_points, entry_points_num, point_levels,
                   scorer, request, linked, before, step, oracle_links, oracle_entry,
                   call>>

NextStore ==
    \E point_id \in Points : \E level \in 0 .. (Len(links_layers) - 1) :
        \E links \in ListsUpTo(get_m(level)) : SetLinks(point_id, level, links)

SpecStore == InitStore /\ [][NextStore]_vars

\* ---------------------------------------------------------------- three points
\* Builds of three points with m = 1 and m0 = 2, scores in tenths.
InitTriple ==
    /\ point_levels \in [1 .. 3 -> 0 .. MaxLevel]
    /\ scorer \in [Pairs(3) -> {5, 9}]
    /\ m = 1
    /\ m0 = 2
    /\ ef_construct \in 1 .. 4
    /\ entry_points_num \in 1 .. MaxEntryPoints
    /\ links_layers = NewLinksLayers(point_levels, m, m0)
    /\ entry_points = <<>>
    /\ request = None
    /\ linked = {}
    /\ before = links_layers
    /\ step = None
    /\ oracle_links = [p \in 0 .. 2 |-> [l \in 0 .. MaxOfSet(SeqToSet(point_levels)) |-> <<>>]]
    /\ oracle_entry = None
    /\ call = None
    /\ set_calls = 0
    /\ last_set = None

SpecTriple == InitTriple /\ [][Next]_vars

\* ---------------------------------------------------------------- one level, wide
\* Builds of MaxPoints points that all share level 0, with one more score value
\* and one more beam width than Init draws.
InitWide ==
    /\ point_levels = [i \in 1 .. MaxPoints |-> 0]
    /\ scorer \in [Pairs(MaxPoints) -> 1 .. (MaxScore + 1)]
    /\ m \in 1 .. MaxM
    /\ m0 \in m .. MaxM
    /\ ef_construct \in 1 .. (MaxEf + 1)
    /\ entry_points_num \in 1 .. MaxEntryPoints
    /\ links_layers = NewLinksLayers(point_levels, m, m0)
    /\ entry_points = <<>>
    /\ request = None
    /\ linked = {}
    /\ before = links_layers
    /\ step = None
    /\ oracle_links = [p \in 0 .. (MaxPoints - 1) |-> [l \in 0 .. 0 |-> <<>>]]
    /\ oracle_entry = None
    /\ call = None
    /\ set_calls = 0
    /\ last_set = None

SpecWide == InitWide /\ [][Next]_vars

\* ---------------------------------------------------------------- three levels
\* Builds of MaxPoints points on one more level than Init draws, so that a
\* call steps up to three levels and a descent passes up to two.
InitDeep ==
    /\ point_levels \in [1 .. MaxPoints -> 0 .. (MaxLevel + 1)]
    /\ scorer \in [Pairs(MaxPoints) -> 1 .. MaxScore]
    /\ m \in 1 .. 2
    /\ m0 = 2
    /\ ef_construct \in 1 .. MaxEf
    /\ entry_points_num \in 1 .. MaxEntryPoints
    /\ links_layers = NewLinksLayers(point_levels, m, m0)
    /\ entry_points = <<>>
    /\ request = None
    /\ linked = {}
    /\ before = links_layers
    /\ step = None
    /\ oracle_links = [p \in 0 .. (MaxPoints - 1) |->
                          [l \in 0 .. MaxOfSet(SeqToSet(point_levels)) |-> <<>>]]
    /\ oracle_entry = None
    /\ call = None
    /\ set_calls = 0
    /\ last_set = None

SpecDeep == InitDeep /\ [][Next]_vars

\* ---------------------------------------------------------------- descents
\* Builds in which the last point has level 0 and every point before it has a
\* level above 0, so that the call for the last point descends to it, with one
\* more score value than Init draws, so that a descent can move twice.
InitClimb ==
    /\ point_levels \in {lv \in [1 .. MaxPoints -> 0 .. (MaxLevel + 1)] :
                            /\ lv[MaxPoints] = 0
                            /\ \A i \in 1 .. (MaxPoints - 1) : lv[i] >= 1}
    /\ scorer \in [Pairs(MaxPoints) -> 1 .. (MaxScore + 1)]
    /\ m \in 1 .. 2
    /\ m0 = 2
    /\ ef_construct \in 1 .. MaxEf
    /\ entry_points_num \in 1 .. MaxEntryPoints
    /\ links_layers = NewLinksLayers(point_levels, m, m0)
    /\ entry_points = <<>>
    /\ request = None
    /\ linked = {}
    /\ before = links_layers
    /\ step = None
    /\ oracle_links = [p \in 0 .. (MaxPoints - 1) |->
                          [l \in 0 .. MaxOfSet(SeqToSet(point_levels)) |-> <<>>]]
    /\ oracle_entry = None
    /\ call = None
    /\ set_calls = 0
    /\ last_set = None

SpecClimb == InitClimb /\ [][Next]_vars

\* LinkLevel as `call` shows it: the loop of link_new_point has a request and
\* steps its level.  LinkLevel has no guard but request # None, so LoopStep is
\* enabled exactly when LinkLevel is, and the steps of Next that are LoopStep
\* steps are the LinkLevel steps.
LoopStep ==
    /\ request # None
    /\ call' = [call EXCEPT !.levels = Append(@, request.level)]

\* link_new_point neither suspends nor blocks: while the loop has a request,
\* its body runs
SpecClimbFair == SpecClimb /\ WF_call(LoopStep)

\* ---------------------------------------------------------------- properties
Done == request = None

LevelsCount == Len(links_layers) - 1

Levels == 0 .. LevelsCount

Links(point_id, level) == get_links(links_layers, point_id, level)

LinksBefore(point_id, level) == get_links(before, point_id, level)

NoDuplicates(list) == \A i, j \in 1 .. Len(list) : list[i] = list[j] => i = j

\* the last level step took the re-pruning path for its i-th neighbour
RePruned(i) ==
    Len(get_links(step.before, step.response.neighbor_ids[i], step.response.level))
        >= get_m(step.response.level)

SomeRePruned == step # None /\ \E i \in 1 .. Len(step.response.neighbor_ids) : RePruned(i)

\* C1: bounded degree.  After every completed link_new_point call, every list of
\* every linked point q on every level l <= L_q holds at most M(l) ids, where
\* M(0) = m0 and M(l > 0) = m.
C1_BoundedDegree ==
    Done => \A q \in linked : \A l \in 0 .. get_point_level(q) :
                Len(Links(q, l)) <= (IF l = 0 THEN m0 ELSE m)

\* a call has completed whose last step re-pruned a full neighbour of two or
\* more links, and the re-pruned list is full again
C1_Witness ==
    /\ Done
    /\ step # None
    /\ \E i \in 1 .. Len(step.response.neighbor_ids) :
          /\ RePruned(i)
          /\ Len(Links(step.response.neighbor_ids[i], step.response.level))
                = get_m(step.response.level)
          /\ get_m(step.response.level) >= 2

C3_SymmetricMembership ==
    step # None =>
        LET p == step.request.point_id
            l == step.request.level
        IN  \A i \in 1 .. Len(Links(p, l)) :
                LET q == Links(p, l)[i]
                    prior == get_links(step.before, q, l)
                IN  \/ p \in SeqToSet(Links(q, l))
                    \/ /\ Len(prior) = get_m(l)
                       /\ p \notin SeqToSet(RePrune(q, prior, step.request))

\* a step selected a full neighbour whose re-pruning dropped the new point, and
\* another neighbour that took the new point in
C3_Witness ==
    /\ step # None
    /\ \E i, j \in 1 .. Len(Links(step.request.point_id, step.request.level)) :
          LET p == step.request.point_id
              l == step.request.level
          IN  /\ p \notin SeqToSet(Links(Links(p, l)[i], l))
              /\ p \in SeqToSet(Links(Links(p, l)[j], l))

\* C4: no self-loops.  After every completed call no point is in a list of its
\* own; Level-Search for a new point never returns that point, and the new
\* list of a selected neighbour never holds the neighbour.
C4_NoSelfLoops ==
    /\ Done => \A q \in Points : \A l \in Levels : q \notin SeqToSet(Links(q, l))
    /\ step # None =>
          /\ \A i \in 1 .. Len(step.nearest) : step.nearest[i].idx # step.request.point_id
          /\ \A i \in 1 .. Len(step.response.neighbor_ids) :
                step.response.neighbor_ids[i] \notin SeqToSet(step.response.neighbor_links[i])

\* every point is linked, and the last step both appended to a neighbour and
\* re-pruned one
C4_Witness ==
    /\ Done
    /\ linked = Points
    /\ num_points >= 3
    /\ step # None
    /\ \E i, j \in 1 .. Len(step.response.neighbor_ids) : RePruned(i) /\ ~RePruned(j)

\* C5: no duplicates.  After every completed call the entries of every list are
\* pairwise distinct.
C5_NoDuplicates ==
    Done => \A q \in Points : \A l \in Levels : NoDuplicates(Links(q, l))

\* a completed call left a re-pruned list of two entries and an appended list
\* of two entries
C5_Witness ==
    /\ Done
    /\ step # None
    /\ \E i, j \in 1 .. Len(step.response.neighbor_ids) :
          /\ RePruned(i)
          /\ ~RePruned(j)
          /\ Len(Links(step.response.neighbor_ids[i], step.response.level)) >= 2
          /\ Len(Links(step.response.neighbor_ids[j], step.response.level)) >= 2

\* C6: level bound.  After every completed call a point q has no links above its
\* level L_q and is in no list above L_q; a level step searches, selects and
\* writes only points whose level is at least the level of the step.
C6_LevelBound ==
    /\ Done => \A q \in Points : \A l \in Levels :
                  l > get_point_level(q) =>
                      /\ Links(q, l) = <<>>
                      /\ \A p \in Points : q \notin SeqToSet(Links(p, l))
    /\ step # None =>
          /\ get_point_level(step.request.point_id) >= step.request.level
          /\ \A x \in step.visited : get_point_level(x) >= step.request.level
          /\ \A i \in 1 .. Len(step.response.neighbor_ids) :
                get_point_level(step.response.neighbor_ids[i]) >= step.request.level

\* a point of level 0 was linked below an entry point of level 1 that has
\* links on level 1
C6_Witness ==
    /\ Done
    /\ step # None
    /\ LevelsCount >= 1
    /\ get_point_level(step.request.point_id) = 0
    /\ \E e \in linked : get_point_level(e) = 1 /\ Links(e, 1) # <<>>
    /\ \E i \in 1 .. Len(step.response.links) :
          get_point_level(step.response.links[i]) = 1

\* C7: round trip and isolation of the adjacency store.  After
\* set_links(p, l, list) with |list| <= M(l), get_links(p, l) is exactly list,
\* and get_links(p', l') is what it was for every other (p', l').
C7_StoreRoundTrip ==
    last_set # None =>
        /\ Links(last_set.point_id, last_set.level) = last_set.links
        /\ \A p \in Points : \A l \in Levels :
              <<p, l>> # <<last_set.point_id, last_set.level>> =>
                  Links(p, l) = get_links(last_set.before, p, l)

\* a full list was overwritten by a shorter, non-empty one while the slots on
\* both sides of it hold full lists
C7_Witness ==
    /\ last_set # None
    /\ num_points >= 3
    /\ last_set.point_id = 1
    /\ last_set.links # <<>>
    /\ Len(get_links(last_set.before, 1, last_set.level)) = get_m(last_set.level)
    /\ Len(last_set.links) < get_m(last_set.level)

\* C8: the first point is a no-op on the graph.  While only one point has been
\* linked, no request was made, no level step ran, the store is as the call
\* found it and every list on every level is empty; the point is registered.
C8_FirstPointNoOp ==
    Cardinality(linked) = 1 =>
        /\ request = None
        /\ step = None
        /\ links_layers = before
        /\ \A p \in Points : \A l \in Levels : Links(p, l) = <<>>
        /\ Len(entry_points) = 1
        /\ entry_points[1].point_id \in linked

\* link_new_point(0) has completed on a builder of a single point
C8_Witness ==
    /\ num_points = 1
    /\ linked = {0}
    /\ request = None

\* C9: the collinear triple.  N = 3, m = 1, m0 = 2, ef_construct = 4, levels
\* [0,0,0], s(0,1) = s(1,2) = 0.9, s(0,2) = 0.5, order 0,1,2: inserting 2 makes
\* the heuristic admit 1 and reject 0, and the lists end as (2,0) = [1],
\* (1,0) = {0,2}, (0,0) = {1}.
CollinearTriple ==
    /\ ef_construct = 4
    /\ point_levels = <<0, 0, 0>>
    /\ scorer[{0, 1}] = 9
    /\ scorer[{1, 2}] = 9
    /\ scorer[{0, 2}] = 5

C10_NeverShrinks ==
    Done => \A q \in Points : \A l \in Levels : Len(Links(q, l)) >= Len(LinksBefore(q, l))

\* C10, amended: across a call the count of a list decreases only if the list
\* held M(l) entries when the call started, and such a list stays non-empty.
C10_ShrinksOnlyWhenFull ==
    Done => \A q \in Points : \A l \in Levels :
                \/ Len(Links(q, l)) >= Len(LinksBefore(q, l))
                \/ /\ Len(LinksBefore(q, l)) = get_m(l)
                   /\ Links(q, l) # <<>>

\* a call shrank a full list and grew a list that was not full
C10_Witness ==
    /\ Done
    /\ \E q \in Points : \E l \in Levels : Len(Links(q, l)) < Len(LinksBefore(q, l))
    /\ \E q \in Points : \E l \in Levels :
          /\ LinksBefore(q, l) # <<>>
          /\ Len(Links(q, l)) > Len(LinksBefore(q, l))

\* ---------------------------------------------------------------- the heuristic
\* candidates come best first
Descending(candidates) ==
    \A i, j \in 1 .. Len(candidates) : i < j => candidates[i].score >= candidates[j].score

\* the candidates before position i whose id is in result
AdmittedBefore(candidates, result, i) ==
    {j \in 1 .. (i - 1) : candidates[j].idx \in SeqToSet(result)}

\* candidate i passes the test of the heuristic against what was admitted before it
Passes(candidates, mm, result, i) ==
    /\ Cardinality(AdmittedBefore(candidates, result, i)) < mm
    /\ \A j \in AdmittedBefore(candidates, result, i) :
          score(candidates[i].idx, candidates[j].idx) <= candidates[i].score

\* result is what the heuristic is to answer for candidates and the limit mm
HeuristicLaw(candidates, mm, result) ==
    /\ Len(result) <= mm
    /\ NoDuplicates(result)
    /\ \A a \in 1 .. Len(result) : \E i \in 1 .. Len(candidates) :
          /\ candidates[i].idx = result[a]
          /\ Cardinality(AdmittedBefore(candidates, result, i)) = a - 1
    /\ \A i \in 1 .. Len(candidates) :
          candidates[i].idx \in SeqToSet(result) <=> Passes(candidates, mm, result, i)
    /\ (mm >= 1 /\ candidates # <<>>) => (result # <<>> /\ result[1] = candidates[1].idx)
    /\ \A i \in 1 .. Len(candidates) : \A a \in 1 .. Len(result) :
          (/\ \E j \in 1 .. (i - 1) : candidates[j].idx = result[a]
           /\ score(candidates[i].idx, result[a]) > candidates[i].score)
              => candidates[i].idx \notin SeqToSet(result)

\* the candidates the last level step re-pruned its i-th neighbour with
StepRePruneCandidates(i) ==
    RePruneCandidates(step.response.neighbor_ids[i],
                      get_links(step.before, step.response.neighbor_ids[i],
                                step.response.level),
                      step.request)

\* C11: the neighbor heuristic.  Every call of select in a level step (the one
\* for the new point on the result of Level-Search, and the one of each
\* re-pruned neighbour) that gets its candidates best first answers a
\* subsequence of their ids of at most M entries, in which a candidate is
\* admitted iff fewer than M are admitted so far and its score to every
\* admitted one is at most its own score; so the first candidate is admitted,
\* and a candidate closer to an admitted one than to the query is rejected.
C11_Heuristic ==
    step # None =>
        /\ Descending(step.nearest) =>
              HeuristicLaw(step.nearest, get_m(step.request.level), step.response.links)
        /\ \A i \in 1 .. Len(step.response.neighbor_ids) :
              (RePruned(i) /\ Descending(StepRePruneCandidates(i))) =>
                  HeuristicLaw(StepRePruneCandidates(i), get_m(step.request.level),
                               step.response.neighbor_links[i])

\* candidate i is left out of result although it passes the score test
LeftOutForRoom(candidates, result, i) ==
    /\ candidates[i].idx \notin SeqToSet(result)
    /\ \A j \in AdmittedBefore(candidates, result, i) :
          score(candidates[i].idx, candidates[j].idx) <= candidates[i].score

\* candidate i is left out of result while there was room
LeftOutForScore(candidates, mm, result, i) ==
    /\ candidates[i].idx \notin SeqToSet(result)
    /\ Cardinality(AdmittedBefore(candidates, result, i)) < mm

\* a level step selected for the new point from candidates that come best
\* first and left one out for want of room only; a re-pruning of the same step
\* rejected a candidate while there was room and admitted a later one
C11_Witness ==
    /\ step # None
    /\ Descending(step.nearest)
    /\ \E a \in 1 .. Len(step.nearest) :
          LeftOutForRoom(step.nearest, step.response.links, a)
    /\ \E i \in 1 .. Len(step.response.neighbor_ids) :
          LET cands == StepRePruneCandidates(i)
              result == step.response.neighbor_links[i]
          IN  /\ RePruned(i)
              /\ Descending(cands)
              /\ \E a, b \in 1 .. Len(cands) :
                    /\ a < b
                    /\ LeftOutForScore(cands, get_m(step.request.level), result, a)
                    /\ cands[b].idx \in SeqToSet(result)

\* ---------------------------------------------------------------- the level loop
\* the level the steps of the running (or last) call start at
StartLevel == Min(get_point_level(call.point_id), call.entry_point.level)

\* C12: per-level step order.  A call for p whose registry entry is E steps the
\* levels min(L_p, E.level), min(L_p, E.level) - 1, ..., 0 in this order, each
\* once; the step of a level searches and writes that level; the loop goes on
\* exactly until level 0 is stepped; a call without an entry steps no level.
C12_StepOrder ==
    call # None =>
        IF call.entry_point = None
        THEN call.levels = <<>> /\ request = None
        ELSE /\ Len(call.levels) <= StartLevel + 1
             /\ \A i \in 1 .. Len(call.levels) : call.levels[i] = StartLevel - (i - 1)
             /\ (request = None) <=> (Len(call.levels) = StartLevel + 1)
             /\ request # None =>
                    /\ request.point_id = call.point_id
                    /\ request.level = StartLevel - Len(call.levels)
             /\ (step = None) <=> (call.levels = <<>>)
             /\ step # None =>
                    /\ step.request.point_id = call.point_id
                    /\ step.request.level = Last(call.levels)
                    /\ step.response.level = Last(call.levels)

\* a call for a point of level 2 entered at a point of level 2, stepped the
\* levels 2, 1 and 0, and finished
C12_Witness ==
    /\ call # None
    /\ call.entry_point # None
    /\ request = None
    /\ call.levels = <<2, 1, 0>>
    /\ get_point_level(call.point_id) = 2

\* ---------------------------------------------------------------- level search
WorstScore(nearest) == FLPQ_top(nearest).score

\* C13: the early exit of Level-Search.  When the expansion loop of a level
\* step left by its break, the beam held ef_construct points and the score of
\* the popped candidate was strictly below the worst score in the beam; with
\* room in the beam the loop runs until candidates is empty.
C13_EarlyExit ==
    step # None =>
        /\ step.exit # None =>
              /\ Len(step.exit.nearest) = ef_construct
              /\ step.exit.candidate.score < WorstScore(step.exit.nearest)
        /\ Len(step.nearest) < ef_construct => step.exit = None

\* a level step left its expansion loop by the break, on a beam of two, after
\* it had expanded two candidates
C13_Witness ==
    /\ step # None
    /\ step.exit # None
    /\ ef_construct >= 2
    /\ Len(step.expanded) >= 2

\* entry k of the log of the last level step
Admitted(k) == step.log[k].point \in SeqToSet(step.log[k].nearest_after)

Pushed(k) == step.log[k].point \in SeqToSet(step.log[k].candidates_after)

BeamFull(k) == Len(step.log[k].nearest) = ef_construct

TiesWorst(k) == BeamFull(k) /\ step.log[k].point.score = WorstScore(step.log[k].nearest)

\* C14: beam admission.  In the Level-Search of a level step a scored neighbor
\* goes onto candidates iff it entered the beam, which it does iff the beam had
\* room or its score is strictly better than the worst kept score, whose point
\* it then replaces; a neighbor the full beam rejected, one that only ties the
\* worst kept score included, leaves the beam as it was and is never on
\* candidates nor expanded; no point is scored twice in one search.
C14_BeamAdmission ==
    step # None =>
        /\ \A k \in 1 .. Len(step.log) :
              /\ Pushed(k) <=> Admitted(k)
              /\ Admitted(k) <=>
                    (~BeamFull(k) \/ WorstScore(step.log[k].nearest) < step.log[k].point.score)
              /\ (Admitted(k) /\ BeamFull(k)) =>
                    SeqToSet(step.log[k].nearest_after) =
                        (SeqToSet(step.log[k].nearest) \ {FLPQ_top(step.log[k].nearest)})
                            \cup {step.log[k].point}
              /\ (Admitted(k) /\ ~BeamFull(k)) =>
                    SeqToSet(step.log[k].nearest_after) =
                        SeqToSet(step.log[k].nearest) \cup {step.log[k].point}
              /\ TiesWorst(k) => ~Pushed(k)
              /\ ~Admitted(k) =>
                    /\ step.log[k].nearest_after = step.log[k].nearest
                    /\ \A j \in k .. Len(step.log) :
                          step.log[k].point \notin SeqToSet(step.log[j].candidates_after)
                    /\ step.log[k].point \notin SeqToSet(step.expanded)
        /\ \A j, k \in 1 .. Len(step.log) :
              step.log[j].point.idx = step.log[k].point.idx => j = k
        /\ \A k \in 1 .. Len(step.log) : step.log[k].point.idx # step.request.entry.idx
        /\ \A i \in 1 .. Len(step.expanded) :
              \/ step.expanded[i] = step.request.entry
              \/ \E k \in 1 .. Len(step.log) : Admitted(k) /\ step.log[k].point = step.expanded[i]

\* one search scored a neighbor that replaced the worst point of the full
\* beam and was expanded later, and a neighbor that tied the worst kept score
\* and was rejected
C14_Witness ==
    /\ step # None
    /\ \E j, k \in 1 .. Len(step.log) :
          /\ BeamFull(j)
          /\ Admitted(j)
          /\ step.log[j].point \in SeqToSet(step.expanded)
          /\ TiesWorst(k)
          /\ ~Admitted(k)

\* ---------------------------------------------------------------- hand-over
\* C15: entry hand-over between levels.  The result of the Level-Search of a
\* level step holds between 1 and ef_construct points; the entry the step
\* answers is a point of that result with the highest score, never the entry
\* of its request kept for want of a result; and the request of the next lower
\* level, for the same point, enters at that point.
C15_EntryHandOver ==
    step # None =>
        /\ Len(step.nearest) >= 1
        /\ Len(step.nearest) <= ef_construct
        /\ step.response.entry \in SeqToSet(step.nearest)
        /\ \A i \in 1 .. Len(step.nearest) :
              step.nearest[i].score <= step.response.entry.score
        /\ request # None =>
              /\ request.point_id = step.request.point_id
              /\ request.level = step.request.level - 1
              /\ request.entry = step.response.entry

\* the step of level 1 of a call that started on level 2 found a better point
\* than it entered at, and level 0 is about to be searched from it
C15_Witness ==
    /\ step # None
    /\ request # None
    /\ call.levels = <<2, 1>>
    /\ request.level = 0
    /\ request.entry.idx # step.request.entry.idx
    /\ request.entry.score > step.request.entry.score
    /\ Len(step.nearest) >= 2

\* ---------------------------------------------------------------- entry descent
\* the descent of the running (or last) call moved on the level
MovedOn(level) ==
    \E i \in 1 .. (Len(call.descent.run.scans) - 1) :
        /\ call.descent.run.scans[i].level = level
        /\ call.descent.run.scans[i + 1].level = level

\* C16: the result of Entry Descent.  A descent runs only with top_level >
\* target_level; its passes are on the levels top_level down to
\* target_level + 1, each of them, in this order, never on target_level; the
\* point it answers scores to the query at least as the entry does, and no
\* neighbor of that point on level target_level + 1 scores strictly higher;
\* the first request of the call enters at that point.
C16_EntryDescent ==
    (call # None /\ call.descent # None) =>
        LET d == call.descent
            scans == d.run.scans
            result == d.run.current_point
            links == get_links(before, result.idx, d.target_level + 1)
        IN  /\ d.top_level > d.target_level
            /\ d.target_level = get_point_level(call.point_id)
            /\ {scans[i].level : i \in 1 .. Len(scans)} = (d.target_level + 1) .. d.top_level
            /\ \A i, j \in 1 .. Len(scans) : i < j => scans[i].level >= scans[j].level
            /\ result.score = score(call.point_id, result.idx)
            /\ result.score >= score(call.point_id, d.entry_point)
            /\ \A i \in 1 .. Len(links) : score(links[i], call.point_id) <= result.score
            /\ call.levels = <<>> => (request # None /\ request.entry = result)

\* a descent from level 2 to a query of level 0 moved on level 2 and again on
\* level 1
C16_Witness ==
    /\ call # None
    /\ call.descent # None
    /\ call.descent.top_level = 2
    /\ call.descent.target_level = 0
    /\ MovedOn(2)
    /\ MovedOn(1)
    /\ call.descent.run.current_point.idx # call.descent.entry_point

\* ---------------------------------------------------------------- termination
\* the passes of the descent on one level read pairwise distinct points, of
\* strictly growing score
DescentProgress(scans) ==
    \A i, j \in 1 .. Len(scans) :
        (i < j /\ scans[i].level = scans[j].level) =>
            /\ scans[i].point.idx # scans[j].point.idx
            /\ scans[i].point.score < scans[j].point.score

\* the expansion loop reads the links of pairwise distinct points
SearchProgress(expanded) ==
    \A i, j \in 1 .. Len(expanded) : expanded[i].idx = expanded[j].idx => i = j

LoopsEnd ==
    /\ (call # None /\ call.descent # None) =>
          /\ ~call.descent.run.cut
          /\ DescentProgress(call.descent.run.scans)
          /\ \A l \in Levels : PassesOn(call.descent.run.scans, l) <= num_points
    /\ step # None =>
          /\ ~step.cut
          /\ SearchProgress(step.expanded)
          /\ Len(step.expanded) <= num_points

\* C17: termination.  In every call the while loop of Entry Descent ends on
\* each level within num_points passes and the expansion loop of Level-Search
\* within num_points expansions, whatever cycles the stored lists hold, and
\* the level loop, once it has a request, reaches the end of the call.
C17_Termination ==
    /\ []LoopsEnd
    /\ (request # None) ~> (request = None)

\* a call has finished whose descent moved twice on one level, the second time
\* from a point that links back to the point it came from, and whose last
\* Level-Search expanded two points that link to each other
C17_Witness ==
    /\ request = None
    /\ call # None
    /\ call.descent # None
    /\ step # None
    /\ \E i \in 1 .. (Len(call.descent.run.scans) - 2) :
          LET a == call.descent.run.scans[i]
              b == call.descent.run.scans[i + 1]
              c == call.descent.run.scans[i + 2]
          IN  /\ a.level = b.level
              /\ b.level = c.level
              /\ a.point.idx \in SeqToSet(get_links(before, b.point.idx, b.level))
    /\ \E i, j \in 1 .. Len(step.expanded) :
          /\ i # j
          /\ step.expanded[i].idx
                \in SeqToSet(get_links(step.before, step.expanded[j].idx, step.request.level))
          /\ step.expanded[j].idx
                \in SeqToSet(get_links(step.before, step.expanded[i].idx, step.request.level))

\* ---------------------------------------------------------------- connectivity
\* C18: every linked point keeps a neighbor.  After every completed call with
\* two or more points linked, every linked point has a non-empty list on
\* level 0, a list re-pruned by the call included.
C18_KeepsNeighbor ==
    (Done /\ Cardinality(linked) >= 2) =>
        \A q \in linked : Links(q, 0) # <<>>

\* a call on level 0 has completed that re-pruned the full list of a neighbour
\* down to fewer entries, among four linked points
C18_Witness ==
    /\ Done
    /\ Cardinality(linked) = MaxPoints
    /\ step # None
    /\ step.request.level = 0
    /\ \E i \in 1 .. Len(step.response.neighbor_ids) :
          /\ RePruned(i)
          /\ Len(Links(step.response.neighbor_ids[i], 0))
                < Len(get_links(step.before, step.response.neighbor_ids[i], 0))

\* ---------------------------------------------------------------- frame
\* the points whose list the last level step wrote: the new point and the
\* points selected for it
Touched == {step.request.point_id} \cup SeqToSet(step.response.links)

\* C19: the frame of a link step.  The level-l step of link_new_point(p) leaves
\* point_levels, the buffer of every other level and the level-l list of every
\* point other than p and the points selected for p as they were; the new
\* list of a selected point is its list from before the step with p appended
\* if that had room, else the re-pruning of p and that list.
C19_Frame ==
    [][request # None =>
          LET p == request.point_id
              l == request.level
              selected == get_links(links_layers', p, l)
          IN  /\ point_levels' = point_levels
              /\ Len(links_layers') = Len(links_layers)
              /\ \A k \in Levels : k # l => links_layers'[k + 1] = links_layers[k + 1]
              /\ \A q \in Points \ ({p} \cup SeqToSet(selected)) :
                    get_links(links_layers', q, l) = get_links(links_layers, q, l)
              /\ \A i \in 1 .. Len(selected) :
                    LET prior == get_links(links_layers, selected[i], l)
                    IN  get_links(links_layers', selected[i], l) =
                            IF Len(prior) < get_m(l)
                            THEN Append(prior, p)
                            ELSE RePrune(selected[i], prior, request)
    ]_vars

\* a step on level 1 re-pruned a selected point while a point it did not
\* select holds a list on level 1 and lists are held on level 0
C19_Witness ==
    /\ step # None
    /\ step.request.level = 1
    /\ SomeRePruned
    /\ \E q \in Points \ Touched : Links(q, 1) # <<>>
    /\ \E q \in Points : Len(Links(q, 0)) >= 2

====
